---- MODULE Spec2Model ----
(***************************************************************************)
(* A model of the Zabbix JSON-RPC client of src/base.go: the API object    *)
(* (auth token, correlation-id counter, mutex, Config), the call engine    *)
(* callBytes / Call / CallWithError / CallWithErrorParse, Login, Version    *)
(* and NewAPI, run by several goroutines that share one *API.               *)
(*                                                                         *)
(* Go strings are sequences of one-character strings, so that Split,       *)
(* ParseInt and Sprintf are computed and not assumed.                      *)
(***************************************************************************)
EXTENDS Integers, Sequences, FiniteSets, TLC

VARIABLES
    Auth,       \* API.Auth: the session token ("" is <<>>)
    id,         \* API.id: the correlation-id counter (int32)
    ex,         \* API.ex: the goroutine holding the mutex, or NoThread
    c,          \* API.c: the http.Client the requests go through
    Config,     \* API.Config (with API.url, a copy of Config.Url)
    built,      \* whether NewAPI has returned
    crashed,    \* an unrecovered panic has ended the process
    pc,         \* per goroutine: where it stands
    op,         \* per goroutine: the public operation it runs (or ran last)
    fr,         \* per goroutine: the locals and results of that operation
    gh,         \* per goroutine: a record of what that operation did (history)
    ret,        \* history: the return (or panic) the last step made, or NoReturn
    issued,     \* history: the ids put into request structs, in the order taken
    inflight,   \* history: the ids handed to the transport whose exchange has not
                \* ended, in the order handed over
    maxSent     \* history: the largest id handed to the transport so far (0: none)

vars == <<Auth, id, ex, c, Config, built, crashed, pc, op, fr, gh, ret, issued, inflight, maxSent>>

----------------------------------------------------------------------------
(* Bounds of the model *)

\* No correlation id beyond this one is taken: MaxId when the goroutines run
\* the operations with no restraint, MaxIdExcl when Login and Version run alone.
MaxId == 3
MaxIdExcl == 4
\* Where the server's version string is any string of up to MaxSegs segments:
\* no id beyond MaxIdParse.
MaxIdParse == 3
\* Where SetClient is among the operations: no id beyond MaxIdFrame.
MaxIdFrame == 3
MaxSegs == 4

\* The goroutines sharing the client; Main is the one that calls NewAPI.
Main == "main"
Threads == {"main", "w1"}
NoThread == "none"

----------------------------------------------------------------------------
(* Strings *)

EmptyStr == <<>>
TokA == <<"a">>
TokB == <<"b">>
V540 == <<"5", ".", "4", ".", "0">>
V30 == <<"3", ".", "0">>
VBad == <<"5", ".", "x">>
ResStr == <<"r">>

UrlGood == <<"h", "t", "t", "p", ":", "/", "/", "z", "/">>
UrlBad == <<":", "/", "/", "z">>

Digits == <<"0", "1", "2", "3", "4", "5", "6", "7", "8", "9">>
IsDigit(ch) == \E i \in 1..10 : Digits[i] = ch
DigitVal(ch) == (CHOOSE i \in 1..10 : Digits[i] = ch) - 1

MaxInt32 == 2147483647
MinInt32 == -2147483647 - 1

\* atomic.AddInt32(&v, d) for d >= 0: the new value, wrapping at the int32 range.
AddInt32StaleLoad(v, d) == v
AddInt32Twice(v, d) == v + d + d
AddInt32Down(v, d) == v - d
AddInt32(v, d) ==
    IF v > MaxInt32 - d THEN MinInt32 + (d - (MaxInt32 - v) - 1) ELSE v + d

\* strings.Split(s, sep) for a one-character separator.
RECURSIVE SplitFrom(_, _, _)
SplitFrom(s, sep, cur) ==
    IF s = <<>> THEN <<cur>>
    ELSE IF Head(s) = sep THEN <<cur>> \o SplitFrom(Tail(s), sep, <<>>)
    ELSE SplitFrom(Tail(s), sep, Append(cur, Head(s)))
Split(s, sep) == SplitFrom(s, sep, <<>>)

\* The value of a string of digits.
RECURSIVE DigitsValue(_, _)
DigitsValue(s, acc) ==
    IF s = <<>> THEN acc ELSE DigitsValue(Tail(s), acc * 10 + DigitVal(Head(s)))

\* The digits of 1<<63 - 1 and of 1<<63, the bounds of int64.
MaxInt64Digits ==
    <<"9", "2", "2", "3", "3", "7", "2", "0", "3", "6", "8", "5", "4", "7", "7", "5", "8", "0", "7">>
MinInt64Digits ==
    <<"9", "2", "2", "3", "3", "7", "2", "0", "3", "6", "8", "5", "4", "7", "7", "5", "8", "0", "8">>

\* A string of digits without its leading zeros.
RECURSIVE StripZeros(_)
StripZeros(s) == IF s # <<>> /\ Head(s) = "0" THEN StripZeros(Tail(s)) ELSE s

\* Whether the number written a is greater than the number written b (digits,
\* no leading zeros).
RECURSIVE DigitsGreater(_, _)
DigitsGreater(a, b) ==
    IF Len(a) # Len(b) THEN Len(a) > Len(b)
    ELSE IF a = <<>> THEN FALSE
    ELSE IF Head(a) # Head(b) THEN DigitVal(Head(a)) > DigitVal(Head(b))
    ELSE DigitsGreater(Tail(a), Tail(b))

\* strconv.ParseInt(s, 10, 64): an optional sign, then one or more digits
\* (ErrSyntax if not); a value outside int64 is ErrRange. err is reported as
\* ok = FALSE, with the value ParseInt returns beside it left at 0: its callers
\* here do not read it.
ParseIntLenient(s) ==
    LET signed == s # <<>> /\ Head(s) \in {"+", "-"}
        body == IF signed THEN Tail(s) ELSE s
        neg == signed /\ Head(s) = "-"
        sig == StripZeros(body)
    IN IF body = <<>> \/ \E i \in 1..Len(body) : ~IsDigit(body[i])
       THEN [ok |-> TRUE, val |-> 0]
       ELSE IF DigitsGreater(sig, IF neg THEN MinInt64Digits ELSE MaxInt64Digits)
       THEN [ok |-> FALSE, val |-> 0]
       ELSE [ok |-> TRUE,
             val |-> IF neg THEN -DigitsValue(sig, 0) ELSE DigitsValue(sig, 0)]
ParseInt(s) ==
    LET signed == s # <<>> /\ Head(s) \in {"+", "-"}
        body == IF signed THEN Tail(s) ELSE s
        neg == signed /\ Head(s) = "-"
        sig == StripZeros(body)
    IN IF body = <<>> \/ \E i \in 1..Len(body) : ~IsDigit(body[i])
       THEN [ok |-> FALSE, val |-> 0]
       ELSE IF DigitsGreater(sig, IF neg THEN MinInt64Digits ELSE MaxInt64Digits)
       THEN [ok |-> FALSE, val |-> 0]
       ELSE [ok |-> TRUE,
             val |-> IF neg THEN -DigitsValue(sig, 0) ELSE DigitsValue(sig, 0)]

MajorWeight == 10000
MinorWeight == 100

\* parseVersionString: (version, err); err is reported as ok = FALSE. The
\* arithmetic is that of int64; the segments this model feeds it are either
\* beyond int64 (ParseInt fails) or of at most three digits, so that no
\* product or sum here comes near the int64 range.
parseVersionStringNoPatch(vstr) ==
    LET parts == Split(vstr, ".")
        p1 == ParseInt(parts[1])
        p2 == IF Len(parts) > 1 THEN ParseInt(parts[2]) ELSE [ok |-> TRUE, val |-> 0]
    IN [ok |-> p1.ok /\ p2.ok,
        version |-> IF p1.ok /\ p2.ok THEN p1.val * MajorWeight + p2.val * MinorWeight ELSE 0]
parseVersionStringNarrow(vstr) ==
    LET parts == Split(vstr, ".")
        p1 == ParseInt(parts[1])
        p2 == IF Len(parts) > 1 THEN ParseInt(parts[2]) ELSE [ok |-> TRUE, val |-> 0]
        p3 == IF Len(parts) > 2 THEN ParseInt(parts[3]) ELSE [ok |-> TRUE, val |-> 0]
    IN [ok |-> p1.ok /\ p2.ok /\ p3.ok,
        version |-> IF p1.ok /\ p2.ok /\ p3.ok
                    THEN p1.val * MajorWeight + p2.val * 10 + p3.val ELSE 0]
parseVersionString(vstr) ==
    LET parts == Split(vstr, ".")
        p1 == ParseInt(parts[1])
        v1 == p1.val * MajorWeight
    IN IF ~p1.ok THEN [ok |-> FALSE, version |-> p1.val]
       ELSE LET p2 == IF Len(parts) > 1 THEN ParseInt(parts[2]) ELSE [ok |-> TRUE, val |-> 0]
                v2 == v1 + p2.val * MinorWeight
            IN IF ~p2.ok THEN [ok |-> FALSE, version |-> v1]
               ELSE LET p3 == IF Len(parts) > 2 THEN ParseInt(parts[3])
                                                ELSE [ok |-> TRUE, val |-> 0]
                    IN IF ~p3.ok THEN [ok |-> FALSE, version |-> v2]
                       ELSE [ok |-> TRUE, version |-> v2 + p3.val]

----------------------------------------------------------------------------
(* Values: errors, envelopes, replies *)

NilErr == [kind |-> "nil", code |-> 0]
\* kind: "marshal" (json.Marshal), "newrequest" (http.NewRequest), "transport"
\* (http.Client.Do), "read" (ioutil.ReadAll), "decode" (json.Unmarshal).
PlainErr(kind) == [kind |-> kind, code |-> 0]
\* A *Error: the decoded "error" object of a response.
ApiErr(code) == [kind |-> "api", code |-> code]

InvalidParams == -32602
\* The codes of the other API errors a server answers with.
OtherCodes == {-32500}

NullError == [null |-> TRUE, code |-> 0]
ErrorObj(code) == [null |-> FALSE, code |-> code]

\* A JSON value of the "result" field; "absent" when the field is missing.
JNull == [type |-> "null", str |-> EmptyStr]
JAbsent == [type |-> "absent", str |-> EmptyStr]
JNumber == [type |-> "number", str |-> EmptyStr]
JString(s) == [type |-> "string", str |-> s]

\* Response / RawResponse after decoding (zero value: nil Error, nil Result).
ZeroResponse == [Error |-> NullError, Result |-> JNull]
ZeroRaw == [Error |-> NullError, Result |-> JAbsent]

\* A response body: bytes that are a JSON envelope (valid) or not.
Garbage == [valid |-> FALSE, Error |-> NullError, Result |-> JAbsent]
Envelope(e, r) == [valid |-> TRUE, Error |-> e, Result |-> r]
NoBytes == Garbage

\* What the server may answer to a method: the strings are per method to keep
\* the model small, everything else is the same for all methods.
ReplyStrings(method) ==
    CASE method = "user.login" -> {TokA, TokB}
      [] method = "APIInfo.version" -> {V540, V30, VBad}
      [] OTHER -> {ResStr}

Replies(method) ==
    {Garbage, Envelope(ErrorObj(InvalidParams), JAbsent),
     Envelope(NullError, JNull), Envelope(NullError, JNumber), Envelope(NullError, JAbsent)}
    \cup {Envelope(ErrorObj(code), JNull) : code \in OtherCodes}
    \cup {Envelope(NullError, JString(s)) : s \in ReplyStrings(method)}

\* json.Unmarshal(b, &response) for Response: (response, err).
UnmarshalResponse(b) ==
    IF ~b.valid THEN [response |-> ZeroResponse, err |-> PlainErr("decode")]
    ELSE [response |-> [Error |-> b.Error,
                        Result |-> IF b.Result.type = "absent" THEN JNull ELSE b.Result],
          err |-> NilErr]

\* json.Unmarshal(b, &rawResult) for RawResponse: Result keeps the raw bytes.
UnmarshalRaw(b) ==
    IF ~b.valid THEN [response |-> ZeroRaw, err |-> PlainErr("decode")]
    ELSE [response |-> [Error |-> b.Error, Result |-> b.Result], err |-> NilErr]

\* The caller's target of CallWithErrorParse: its type, and what was decoded into it.
TargetTypes == {"string", "any"}
NoTarget == [type |-> "any", set |-> FALSE, val |-> JNull]

\* json.Unmarshal(rawResult.Result, &result): no bytes at all is an error, null
\* leaves the target alone, a value of the wrong type is an error.
UnmarshalInto(raw, target) ==
    CASE raw.type = "absent" -> [target |-> target, err |-> PlainErr("decode")]
      [] raw.type = "null" -> [target |-> target, err |-> NilErr]
      [] raw.type = "number" /\ target.type = "string" ->
            [target |-> target, err |-> PlainErr("decode")]
      [] OTHER -> [target |-> [target EXCEPT !.set = TRUE, !.val = raw], err |-> NilErr]

\* The request struct and json.Marshal of it: Auth is `json:"auth,omitempty"`.
Request(method, params, auth, rid) ==
    [Jsonrpc |-> "2.0", Method |-> method, Params |-> params, Auth |-> auth, ID |-> rid]

MarshalRequestNoOmit(jsonobj) ==
    [keys |-> {"jsonrpc", "method", "params", "id", "auth"}, obj |-> jsonobj]
MarshalRequest(jsonobj) ==
    [keys |-> {"jsonrpc", "method", "params", "id"}
              \cup (IF jsonobj.Auth # EmptyStr THEN {"auth"} ELSE {}),
     obj |-> jsonobj]
NoRequestBytes == [keys |-> {}, obj |-> Request("", [keys |-> {}, ok |-> TRUE], EmptyStr, 0)]

\* http.NewRequest("POST", url, body) fails when the URL does not parse.
NewRequestOk(url) == url # EmptyStr /\ Head(url) # ":"

\* fmt.Sprintf("Bearer %s", auth); NoHeader: no Authorization header.
NoHeader == <<>>
BearerBare(auth) == auth
Bearer(auth) == <<"Bearer ">> \o auth

----------------------------------------------------------------------------
(* State *)

GoodParams == [keys |-> {"output"}, ok |-> TRUE]
\* Params json.Marshal rejects (a channel or a function among the values).
BadParams == [keys |-> {"output"}, ok |-> FALSE]
NoParams == [keys |-> {}, ok |-> TRUE]

ZeroFrame ==
    [method |-> "", params |-> NoParams,
     id |-> 0,                  \* callBytes: id
     req |-> NoRequestBytes,    \* callBytes: b after json.Marshal
     hdr |-> NoHeader,          \* callBytes: req.Header["Authorization"]
     b |-> NoBytes,             \* callBytes: b after ioutil.ReadAll
     err |-> NilErr, response |-> ZeroResponse,
     target |-> NoTarget,       \* CallWithErrorParse: result
     auth |-> EmptyStr,         \* Version: auth; Login: auth
     attempt |-> 0,             \* Version: which of its two calls is running
     v |-> EmptyStr]            \* Version: v

\* History of one operation: the token when it began and when it returned, the
\* requests it built, the outcome of each of its calls, by how much the current
\* run of callBytes moved the counter, the largest id that had gone to the
\* transport when that run took its id (sentBefore) and when it handed over its
\* own request (sentAtSend), the ids handed over before its own that were
\* still in flight when its exchange ended (overtook), and whether a Login or
\* a Version of another goroutine ran while it ran (overlapped).
ZeroHistory ==
    [authAtEntry |-> EmptyStr, authAtExit |-> EmptyStr, reqs |-> <<>>, outs |-> <<>>,
     adds |-> 0, sentBefore |-> 0, sentAtSend |-> 0, overtook |-> {}, overlapped |-> FALSE]

\* What a return leaves for inspection: who returned from what, the locals at
\* the return (err, response, auth, v, target) and the operation's history.
NoReturn ==
    [t |-> NoThread, op |-> "none", panicked |-> FALSE, fr |-> ZeroFrame, gh |-> ZeroHistory]

Idle(t) == pc[t] = "idle"

\* The operations that "should not be called concurrently with other methods".
Exclusive == {"Login", "Version"}

\* The histories after a step of goroutine t in its operation `name` that
\* leaves t with the history h: the operations other goroutines are in have
\* overlapped with it if it is a Login or a Version.
Histories(t, name, h) ==
    [u \in Threads |->
        IF u = t THEN h
        ELSE IF name \in Exclusive /\ op[u] # "none"
             THEN [gh[u] EXCEPT !.overlapped = TRUE]
             ELSE gh[u]]

\* http.Client values: the one NewAPI makes, and one a caller brings.
DefaultClient == "http.Client{}"
Clients == {DefaultClient, "custom"}

Init ==
    /\ Auth = EmptyStr
    /\ id = 0
    /\ ex = NoThread
    /\ c = DefaultClient
    /\ Config \in [Url : {UrlGood, UrlBad}, Serialize : BOOLEAN, Version : {0}]
    /\ built = FALSE
    /\ crashed = FALSE
    /\ pc = [t \in Threads |-> "idle"]
    /\ op = [t \in Threads |-> "none"]
    /\ fr = [t \in Threads |-> ZeroFrame]
    /\ gh = [t \in Threads |-> ZeroHistory]
    /\ ret = NoReturn
    /\ issued = <<>>
    /\ inflight = <<>>
    /\ maxSent = 0

----------------------------------------------------------------------------
(* The pure parts of the operations *)

\* Call: (response, err) from what callBytes returned.
Call(b, err) ==
    IF err = NilErr THEN UnmarshalResponse(b) ELSE [response |-> ZeroResponse, err |-> err]

\* CallWithError: err becomes response.Error when err is nil and Error is not.
CallWithErrorNoPromote(b, err) == Call(b, err)
CallWithError(b, err) ==
    LET r == Call(b, err)
    IN IF r.err = NilErr /\ ~r.response.Error.null
       THEN [r EXCEPT !.err = ApiErr(r.response.Error.code)]
       ELSE r

\* CallWithErrorParse: (err, target) from what callBytes returned.
CallWithErrorParse(b, err, target) ==
    IF err # NilErr THEN [err |-> err, target |-> target]
    ELSE LET raw == UnmarshalRaw(b)
         IN IF raw.err # NilErr THEN [err |-> raw.err, target |-> target]
            ELSE IF ~raw.response.Error.null
                 THEN [err |-> ApiErr(raw.response.Error.code), target |-> target]
                 ELSE UnmarshalInto(raw.response.Result, target)

LoginThreshold == 50400

\* Login: the parameter keys by Config.Version.
LoginParamsStrict(version) ==
    IF version > LoginThreshold
    THEN [keys |-> {"username", "password"}, ok |-> TRUE]
    ELSE [keys |-> {"user", "password"}, ok |-> TRUE]
LoginParams(version) ==
    IF version >= LoginThreshold
    THEN [keys |-> {"username", "password"}, ok |-> TRUE]
    ELSE [keys |-> {"user", "password"}, ok |-> TRUE]

\* if e, ok := err.(*Error); ok && e.Code == -32602
IsAnyApiError(err) == err.kind = "api"
IsAnyError(err) == err # NilErr
IsInvalidParams(err) == err.kind = "api" /\ err.code = InvalidParams

\* The record of a request in an operation's history.
BuiltRequest(frame, tokenSeen) ==
    [id |-> frame.id, method |-> frame.method, params |-> frame.params.keys,
     env |-> frame.req,         \* the serialized envelope
     token |-> tokenSeen,       \* api.Auth as callBytes read it for the header
     hdr |-> frame.hdr,         \* the Authorization header
     ready |-> FALSE,           \* the http.Request is complete
     sent |-> FALSE]            \* it was handed to the transport

Last(q) == q[Len(q)]
\* q without its entries equal to x; the entries of q before the first x.
Without(q, x) == SelectSeq(q, LAMBDA y : y # x)
Before(q, x) == {q[i] : i \in {j \in DOMAIN q : \A k \in 1..j : q[k] # x}}
SetLast(q, x) == [q EXCEPT ![Len(q)] = x]

\* if api.Config.Serialize { api.ex.Lock(); defer api.ex.Unlock() }
NeedsLockNever(cfg) == FALSE
NeedsLock(cfg) == cfg.Serialize

\* After the headers are set: to the lock, or straight to the transport.
AfterHeaders == IF NeedsLock(Config) THEN "cb_lock" ELSE "cb_do"

\* The locals of callBytes are dead once it has returned.
Returned(f) ==
    [f EXCEPT !.id = 0, !.req = NoRequestBytes, !.hdr = NoHeader, !.b = NoBytes,
              !.attempt = 0]

\* The outcome of one call, as an operation's history keeps it: what callBytes
\* returned (its err, and whether b is an envelope and with which error object)
\* and what the caller made of it.
Outcome(f, r) ==
    [cberr |-> f.err, valid |-> f.b.valid, Error |-> f.b.Error, Result |-> f.b.Result,
     err |-> r.err, response |-> r.response]

----------------------------------------------------------------------------
(* Returning *)

\* A goroutine returns from its public operation `name` with the locals f; the
\* return is kept in ret for the one state that follows it.
Leave(t, name, f, h) ==
    /\ fr' = [fr EXCEPT ![t] = ZeroFrame]
    /\ gh' = Histories(t, name, ZeroHistory)
    /\ op' = [op EXCEPT ![t] = "none"]
    /\ pc' = [pc EXCEPT ![t] = "idle"]
    /\ ret' = [t |-> t, op |-> name, panicked |-> FALSE, fr |-> Returned(f),
               gh |-> [h EXCEPT !.authAtExit = Auth']]
    /\ UNCHANGED crashed

\* A failed type assertion: an unrecovered panic ends the process.
Panic(t, name, f, h) ==
    /\ fr' = [fr EXCEPT ![t] = ZeroFrame]
    /\ gh' = Histories(t, name, ZeroHistory)
    /\ op' = [op EXCEPT ![t] = "none"]
    /\ pc' = [pc EXCEPT ![t] = "panic"]
    /\ ret' = [t |-> t, op |-> name, panicked |-> TRUE, fr |-> Returned(f),
               gh |-> [h EXCEPT !.authAtExit = Auth']]
    /\ crashed' = TRUE

\* A goroutine goes on inside its operation `name`.
Goto(t, name, f, h, next) ==
    /\ fr' = [fr EXCEPT ![t] = f]
    /\ gh' = Histories(t, name, h)
    /\ op' = [op EXCEPT ![t] = name]
    /\ pc' = [pc EXCEPT ![t] = next]
    /\ ret' = NoReturn
    /\ UNCHANGED crashed

\* (A Version that stores what it parsed whoever called it.)
VersionEndRenegotiates(t, name, f, h) ==
    IF f.err # NilErr
    THEN /\ Leave(t, name, f, h)
         /\ built' = TRUE
         /\ UNCHANGED Config
    ELSE IF f.response.Result.type # "string"
         THEN /\ Panic(t, name, f, h)
              /\ UNCHANGED <<built, Config>>
         ELSE LET v == f.response.Result.str
                  parsed == parseVersionString(v)
              IN /\ built' = TRUE
                 /\ IF parsed.ok
                    THEN /\ Config' = [Config EXCEPT !.Version = parsed.version]
                         /\ Leave(t, name, [f EXCEPT !.v = v], h)
                    ELSE /\ UNCHANGED Config
                         /\ Leave(t, name, [f EXCEPT !.v = v, !.err = PlainErr("parse")], h)

\* The end of Version (and of NewAPI when NewAPI called it): return the error,
\* or assert the result to be a string; NewAPI then parses and stores it.
\* f holds the response and err of the last CallWithError.
VersionEnd(t, name, f, h) ==
    IF f.err # NilErr
    THEN /\ Leave(t, name, f, h)
         /\ built' = TRUE
         /\ UNCHANGED Config
    ELSE IF f.response.Result.type # "string"
         THEN /\ Panic(t, name, f, h)
              /\ UNCHANGED <<built, Config>>
         ELSE LET v == f.response.Result.str
                  parsed == parseVersionString(v)
              IN /\ built' = TRUE
                 /\ IF name = "NewAPI"
                    THEN IF parsed.ok
                         THEN /\ Config' = [Config EXCEPT !.Version = parsed.version]
                              /\ Leave(t, name, [f EXCEPT !.v = v], h)
                         ELSE /\ UNCHANGED Config
                              /\ Leave(t, name, [f EXCEPT !.v = v, !.err = PlainErr("parse")], h)
                    ELSE /\ UNCHANGED Config
                         /\ Leave(t, name, [f EXCEPT !.v = v], h)

\* What the caller of callBytes does once callBytes has returned (f.b, f.err),
\* up to its return or to its next access to the shared API object.
AfterCallBytes(t, name, f, h) ==
    CASE name = "Call" ->
            LET r == Call(f.b, f.err)
            IN /\ UNCHANGED <<Auth, built, Config>>
               /\ Leave(t, name, [f EXCEPT !.response = r.response, !.err = r.err],
                        [h EXCEPT !.outs = Append(@, Outcome(f, r))])
      [] name = "CallWithError" ->
            LET r == CallWithError(f.b, f.err)
            IN /\ UNCHANGED <<Auth, built, Config>>
               /\ Leave(t, name, [f EXCEPT !.response = r.response, !.err = r.err],
                        [h EXCEPT !.outs = Append(@, Outcome(f, r))])
      [] name = "CallWithErrorParse" ->
            \* The caller's target is read here for the first time: its type is
            \* drawn here.
            \E ty \in TargetTypes :
               LET r == CallWithErrorParse(f.b, f.err, [NoTarget EXCEPT !.type = ty])
               IN /\ UNCHANGED <<Auth, built, Config>>
                  /\ Leave(t, name, [f EXCEPT !.target = r.target, !.err = r.err],
                           [h EXCEPT !.outs =
                               Append(@, Outcome(f, [err |-> r.err,
                                                     response |-> ZeroResponse]))])
      [] name = "Login" ->
            \* response, err = api.CallWithError(...); if err != nil { return };
            \* auth = response.Result.(string)
            LET r == CallWithError(f.b, f.err)
                f1 == [f EXCEPT !.response = r.response, !.err = r.err]
                h1 == [h EXCEPT !.outs = Append(@, Outcome(f, r))]
            IN /\ UNCHANGED <<Auth, built, Config>>
               /\ IF r.err # NilErr THEN Leave(t, name, f1, h1)
                  ELSE IF r.response.Result.type # "string" THEN Panic(t, name, f1, h1)
                  ELSE Goto(t, name, [f1 EXCEPT !.auth = r.response.Result.str], h1,
                            "login_store")
      [] name \in {"Version", "NewAPI"} ->
            LET r == CallWithError(f.b, f.err)
                f1 == [f EXCEPT !.response = r.response, !.err = r.err]
                h1 == [h EXCEPT !.outs = Append(@, Outcome(f, r))]
            IN IF f.attempt = 1
               THEN /\ Goto(t, name, f1, h1, "ver_restore")
                    /\ UNCHANGED <<Auth, built, Config>>
               ELSE /\ UNCHANGED Auth
                    /\ VersionEnd(t, name, f1, h1)

----------------------------------------------------------------------------
(* callBytes *)

\* callBytes, from atomic.AddInt32 to http.NewRequest, run for the operation
\* `name` on the locals f (method and params set) with the history h; lim
\* bounds the ids.
Begin(t, name, f, h, lim) ==
    /\ ~crashed
    /\ id < lim
    /\ UNCHANGED <<ex, inflight, maxSent, c>>
    /\ LET newid == AddInt32(id, 1)
           jsonobj == Request(f.method, f.params, EmptyStr, newid)
           f0 == [f EXCEPT !.id = newid, !.req = NoRequestBytes, !.hdr = NoHeader,
                           !.b = NoBytes, !.err = NilErr]
           f1 == IF ~jsonobj.Params.ok THEN [f0 EXCEPT !.err = PlainErr("marshal")]
                 ELSE IF ~NewRequestOk(Config.Url)
                      THEN [f0 EXCEPT !.req = MarshalRequest(jsonobj),
                                      !.err = PlainErr("newrequest")]
                      ELSE [f0 EXCEPT !.req = MarshalRequest(jsonobj)]
           h1 == [h EXCEPT !.reqs = Append(@, BuiltRequest(f1, EmptyStr)),
                           !.adds = newid - id, !.sentBefore = maxSent,
                           !.sentAtSend = 0, !.overtook = {}]
       IN /\ id' = newid
          /\ issued' = Append(issued, jsonobj.ID)
          /\ IF f1.err = NilErr
             THEN /\ Goto(t, name, f1, h1, "cb_authchk")
                  /\ UNCHANGED <<Auth, built, Config>>
             ELSE AfterCallBytes(t, name, f1, h1)

\* A goroutine enters a public operation whose first act is callBytes: fresh
\* locals, fresh history.
EnterAndBegin(t, name, f, lim) ==
    /\ built
    /\ Idle(t)
    /\ Begin(t, name, f,
             [ZeroHistory EXCEPT !.authAtEntry = Auth,
                                 !.overlapped = \E u \in Threads \ {t} : op[u] \in Exclusive],
             lim)

EnterCall(t, lim) ==
    \E params \in {GoodParams, BadParams} :
        EnterAndBegin(t, "Call",
                      [ZeroFrame EXCEPT !.method = "host.get", !.params = params], lim)

EnterCallWithError(t, lim) ==
    \E params \in {GoodParams, BadParams} :
        EnterAndBegin(t, "CallWithError",
                      [ZeroFrame EXCEPT !.method = "host.get", !.params = params], lim)

EnterCallWithErrorParse(t, lim) ==
    \E params \in {GoodParams, BadParams} :
        EnterAndBegin(t, "CallWithErrorParse",
                      [ZeroFrame EXCEPT !.method = "host.get", !.params = params], lim)

EnterLogin(t, lim) ==
    /\ t = Main
    /\ EnterAndBegin(t, "Login",
                  [ZeroFrame EXCEPT !.method = "user.login",
                                    !.params = LoginParams(Config.Version)], lim)

\* Version, entered by a caller or by NewAPI: auth := api.Auth
EnterVersionAs(t, name, lim) ==
    /\ ~crashed
    /\ Idle(t)
    /\ id < lim
    /\ Goto(t, name, [ZeroFrame EXCEPT !.auth = Auth],
            [ZeroHistory EXCEPT !.authAtEntry = Auth], "ver_clear")
    /\ UNCHANGED <<Auth, id, ex, Config, built, issued, inflight, maxSent, c>>

EnterVersion(t, lim) ==
    /\ t = Main
    /\ built
    /\ EnterVersionAs(t, "Version", lim)

\* NewAPI: the API object is there (Init); api.Version() is its first act.
EnterNewAPI(t, lim) ==
    /\ t = Main
    /\ ~built
    /\ EnterVersionAs(t, "NewAPI", lim)

\* Version: api.Auth = "", before the first CallWithError("APIInfo.version", Params{}).
VersionClear(t) ==
    /\ ~crashed
    /\ pc[t] = "ver_clear"
    /\ Auth' = EmptyStr
    /\ Goto(t, op[t], [fr[t] EXCEPT !.method = "APIInfo.version", !.params = NoParams,
                                    !.attempt = 1], gh[t], "cb_begin")
    /\ UNCHANGED <<id, ex, Config, built, issued, inflight, maxSent, c>>

\* callBytes begun by Version (its first or its second call).
CallBytesBegin(t, lim) ==
    /\ pc[t] = "cb_begin"
    /\ Begin(t, op[t], fr[t], gh[t], lim)

\* if api.Auth != ""
CallBytesAuthCheck(t) ==
    /\ ~crashed
    /\ pc[t] = "cb_authchk"
    /\ IF Auth # EmptyStr
       THEN Goto(t, op[t], fr[t], gh[t], "cb_authfmt")
       ELSE Goto(t, op[t], fr[t],
                 [gh[t] EXCEPT !.reqs = SetLast(@, [Last(@) EXCEPT !.token = Auth,
                                                                 !.ready = TRUE])],
                 AfterHeaders)
    /\ UNCHANGED <<Auth, id, ex, Config, built, issued, inflight, maxSent, c>>

\* req.Header.Add("Authorization", fmt.Sprintf("Bearer %s", api.Auth))
CallBytesAuthHeader(t) ==
    /\ ~crashed
    /\ pc[t] = "cb_authfmt"
    /\ Goto(t, op[t], [fr[t] EXCEPT !.hdr = Bearer(Auth)],
            [gh[t] EXCEPT !.reqs = SetLast(@, [Last(@) EXCEPT !.token = Auth,
                                                            !.hdr = Bearer(Auth),
                                                            !.ready = TRUE])],
            AfterHeaders)
    /\ UNCHANGED <<Auth, id, ex, Config, built, issued, inflight, maxSent, c>>

\* api.ex.Lock()
CallBytesLock(t) ==
    /\ ~crashed
    /\ pc[t] = "cb_lock"
    /\ ex = NoThread
    /\ ex' = t
    /\ Goto(t, op[t], fr[t], gh[t], "cb_do")
    /\ UNCHANGED <<Auth, id, Config, built, issued, inflight, maxSent, c>>

\* api.c.Do(req): the request goes to the transport.
CallBytesDo(t) ==
    /\ ~crashed
    /\ pc[t] = "cb_do"
    /\ inflight' = Append(inflight, fr[t].id)
    /\ maxSent' = IF fr[t].id > maxSent THEN fr[t].id ELSE maxSent
    /\ Goto(t, op[t], fr[t],
            [gh[t] EXCEPT !.reqs = SetLast(@, [Last(@) EXCEPT !.sent = TRUE]),
                          !.sentAtSend = maxSent], "cb_recv")
    /\ UNCHANGED <<Auth, id, ex, Config, built, issued, c>>

\* The end of the exchange: Do fails, or the body is read (ioutil.ReadAll, which
\* may fail too); the deferred Unlock runs as callBytes returns, and the caller
\* goes on with what callBytes returned.
Receive(t, bodies) ==
    /\ ~crashed
    /\ pc[t] = "cb_recv"
    /\ inflight' = Without(inflight, fr[t].id)
    /\ ex' = IF ex = t THEN NoThread ELSE ex
    /\ UNCHANGED <<id, issued, maxSent, c>>
    /\ \E out \in {"transport", "read", "body"} :
          \E body \in bodies :
             /\ out # "body" => body = Garbage
             /\ AfterCallBytes(t, op[t],
                               [fr[t] EXCEPT !.b = IF out = "body" THEN body ELSE NoBytes,
                                             !.err = IF out = "body" THEN NilErr
                                                     ELSE PlainErr(out)],
                               [gh[t] EXCEPT !.overtook = Before(inflight, fr[t].id)])

CallBytesReceive(t) == Receive(t, Replies(fr[t].method))

----------------------------------------------------------------------------
(* Login and Version: the writes of api.Auth *)

\* Login: api.Auth = auth; return
LoginStoreForgotten(t) ==
    /\ ~crashed
    /\ pc[t] = "login_store"
    /\ UNCHANGED Auth
    /\ Leave(t, op[t], fr[t], gh[t])
    /\ UNCHANGED <<id, ex, Config, built, issued, inflight, maxSent, c>>
LoginStore(t) ==
    /\ ~crashed
    /\ pc[t] = "login_store"
    /\ Auth' = fr[t].auth
    /\ Leave(t, op[t], fr[t], gh[t])
    /\ UNCHANGED <<id, ex, Config, built, issued, inflight, maxSent, c>>

\* Version, after its first CallWithError: api.Auth = auth, then either the
\* second call or the end.
VersionRestoreOnSuccess(t) ==
    /\ ~crashed
    /\ pc[t] = "ver_restore"
    /\ Auth' = IF fr[t].err = NilErr THEN fr[t].auth ELSE Auth
    /\ UNCHANGED <<id, ex, issued, inflight, maxSent, c>>
    /\ IF IsInvalidParams(fr[t].err)
       THEN /\ Goto(t, op[t], [fr[t] EXCEPT !.attempt = 2], gh[t], "cb_begin")
            /\ UNCHANGED <<built, Config>>
       ELSE VersionEnd(t, op[t], fr[t], gh[t])
VersionRestore(t) ==
    /\ ~crashed
    /\ pc[t] = "ver_restore"
    /\ Auth' = fr[t].auth
    /\ UNCHANGED <<id, ex, issued, inflight, maxSent, c>>
    /\ IF IsInvalidParams(fr[t].err)
       THEN /\ Goto(t, op[t], [fr[t] EXCEPT !.attempt = 2], gh[t], "cb_begin")
            /\ UNCHANGED <<built, Config>>
       ELSE VersionEnd(t, op[t], fr[t], gh[t])

----------------------------------------------------------------------------
(* Specifications *)

Step(t, lim) ==
    \/ VersionClear(t)
    \/ CallBytesBegin(t, lim)
    \/ CallBytesAuthCheck(t)
    \/ CallBytesAuthHeader(t)
    \/ CallBytesLock(t)
    \/ CallBytesDo(t)
    \/ CallBytesReceive(t)
    \/ LoginStore(t)
    \/ VersionRestore(t)

\* Main builds the client, logs in and asks for the version; every goroutine
\* calls methods, at any time.
Next ==
    \E t \in Threads :
        \/ EnterNewAPI(t, MaxId)
        \/ EnterCall(t, MaxId)
        \/ EnterCallWithError(t, MaxId)
        \/ EnterCallWithErrorParse(t, MaxId)
        \/ EnterLogin(t, MaxId)
        \/ EnterVersion(t, MaxId)
        \/ Step(t, MaxId)

Spec == Init /\ [][Next]_vars

\* Login and Version "should not be called concurrently with other methods":
\* a caller that honours this enters them only while no other goroutine is
\* inside an operation, and enters nothing while one of them runs.
Alone(t) == \A u \in Threads \ {t} : Idle(u)
NoneExclusive(t) ==
    \A u \in Threads \ {t} : op[u] \in {"Login", "Version", "NewAPI"} => Idle(u)

NextExcl ==
    \E t \in Threads :
        \/ EnterNewAPI(t, MaxIdExcl)
        \/ NoneExclusive(t) /\ EnterCall(t, MaxIdExcl)
        \/ NoneExclusive(t) /\ EnterCallWithError(t, MaxIdExcl)
        \/ NoneExclusive(t) /\ EnterCallWithErrorParse(t, MaxIdExcl)
        \/ Alone(t) /\ EnterLogin(t, MaxIdExcl)
        \/ Alone(t) /\ EnterVersion(t, MaxIdExcl)
        \/ Step(t, MaxIdExcl)

SpecExcl == Init /\ [][NextExcl]_vars

----------------------------------------------------------------------------
(* SetClient *)

\* SetClient: api.c = *c. The write is not synchronised with the read of api.c
\* in callBytes, so a caller sets the client while no call runs.
SetClient(t) ==
    /\ ~crashed
    /\ t = Main
    /\ built
    /\ Idle(t)
    /\ Alone(t)
    /\ UNCHANGED <<Auth, id, ex, Config, built, issued, inflight, maxSent>>
    /\ \E new \in Clients : c' = new
    /\ Leave(t, "SetClient", ZeroFrame, [ZeroHistory EXCEPT !.authAtEntry = Auth])

\* Every operation of the client, Login and Version called as documented.
NextFrame ==
    \E t \in Threads :
        \/ EnterNewAPI(t, MaxIdFrame)
        \/ NoneExclusive(t) /\ EnterCall(t, MaxIdFrame)
        \/ NoneExclusive(t) /\ EnterCallWithError(t, MaxIdFrame)
        \/ NoneExclusive(t) /\ EnterCallWithErrorParse(t, MaxIdFrame)
        \/ Alone(t) /\ EnterLogin(t, MaxIdFrame)
        \/ Alone(t) /\ EnterVersion(t, MaxIdFrame)
        \/ SetClient(t)
        \/ Step(t, MaxIdFrame)

SpecFrame == Init /\ [][NextFrame]_vars

----------------------------------------------------------------------------
(* The server's version string *)

\* A number that does not fit int64 (twenty digits).
Huge == [i \in 1..20 |-> "9"]

\* The segments a version string is made of, and the strings of n segments.
Segs == {<<"0">>, <<"3">>, <<"4">>, <<"5">>, <<"1", "0", "0">>, <<"x">>, Huge}
RECURSIVE VersionsOf(_)
VersionsOf(n) ==
    IF n = 1 THEN Segs ELSE {v \o <<".">> \o g : v \in VersionsOf(n - 1), g \in Segs}
VersionStrings == UNION {VersionsOf(n) : n \in 1..MaxSegs}

\* A server that answers APIInfo.version with any of these strings.
ServerReplies(method) ==
    IF method = "APIInfo.version"
    THEN Replies(method) \cup {Envelope(NullError, JString(v)) : v \in VersionStrings}
    ELSE Replies(method)

CallBytesReceiveFrom(t) == Receive(t, ServerReplies(fr[t].method))

\* Main builds the client against such a server and logs in.
NextParse ==
    \E t \in Threads :
        \/ EnterNewAPI(t, MaxIdParse)
        \/ EnterLogin(t, MaxIdParse)
        \/ VersionClear(t)
        \/ CallBytesBegin(t, MaxIdParse)
        \/ CallBytesAuthCheck(t)
        \/ CallBytesAuthHeader(t)
        \/ CallBytesLock(t)
        \/ CallBytesDo(t)
        \/ CallBytesReceiveFrom(t)
        \/ LoginStore(t)
        \/ VersionRestore(t)

SpecParse == Init /\ [][NextParse]_vars

----------------------------------------------------------------------------
(* Properties *)

InCallBytes(t) == pc[t] \in {"cb_authchk", "cb_authfmt", "cb_lock", "cb_do", "cb_recv"}
Returned_(name) == ret.t # NoThread /\ ret.op = name

\* Every request an operation in progress has built, and every request of the
\* operation that has just returned.
AllRequests ==
    UNION {{gh[t].reqs[i] : i \in DOMAIN gh[t].reqs} : t \in Threads}
    \cup {ret.gh.reqs[i] : i \in DOMAIN ret.gh.reqs}

C2_OneStepPerAttempt ==
    /\ \A t \in Threads : gh[t].reqs # <<>> => gh[t].adds = 1
    /\ (ret.t # NoThread /\ ret.gh.reqs # <<>>) => ret.gh.adds = 1
    /\ id = Len(issued)

\* A run that failed in json.Marshal, before any request existed, has returned:
\* it moved the counter as the runs before it did.
C2_Witness ==
    /\ ret.t # NoThread
    /\ ret.gh.outs # <<>>
    /\ ret.gh.outs[1].cberr.kind = "marshal"
    /\ ret.gh.adds = 1
    /\ id >= 2

\* C3: with Serialize, at most one request is in flight, and no exchange ends
\* while a request handed over earlier is still in flight.
C3_SerializedOneInFlight ==
    Config.Serialize =>
        /\ Len(inflight) <= 1
        /\ Cardinality({t \in Threads : pc[t] = "cb_recv"}) <= 1
        /\ \A t \in Threads : gh[t].overtook = {}
        /\ ret.gh.overtook = {}

\* With Serialize, one request is in flight and another call waits for the lock.
C3_Witness ==
    /\ Config.Serialize
    /\ \E t, u \in Threads : pc[t] = "cb_recv" /\ pc[u] = "cb_lock" /\ ex = t

C5_TokenInHeaderAndEnvelope ==
    \A r \in AllRequests :
        (r.ready /\ r.token # EmptyStr) =>
            /\ r.hdr = Bearer(r.token)
            /\ "auth" \in r.env.keys
            /\ r.env.obj.Auth = r.token

\* C6: a request built while the token is empty has no auth field in its
\* envelope and no Authorization header.
C6_NoAuthWhenTokenEmpty ==
    \A r \in AllRequests :
        (r.ready /\ r.token = EmptyStr) =>
            /\ "auth" \notin r.env.keys
            /\ r.hdr = NoHeader

\* A Call has gone to the transport with the token empty.
C6_Witness ==
    /\ Returned_("Call")
    /\ ret.gh.reqs[1].ready /\ ret.gh.reqs[1].sent
    /\ ret.gh.reqs[1].token = EmptyStr
    /\ ret.gh.authAtEntry = EmptyStr

\* C7: Login builds exactly one user.login request; its parameter keys are
\* username and password if Config.Version >= 50400, user and password if not.
LoginKeys == IF Config.Version >= 50400 THEN {"username", "password"} ELSE {"user", "password"}
LoginRequests(reqs, done) ==
    /\ Len(reqs) = 1
    /\ reqs[1].method = "user.login"
    /\ reqs[1].params = LoginKeys
    /\ reqs[1].env.obj.Method = "user.login"
    /\ reqs[1].env.obj.Params.keys = LoginKeys
    /\ (NewRequestOk(Config.Url) /\ done) => reqs[1].sent

C7_LoginParams ==
    /\ \A t \in Threads : op[t] = "Login" => LoginRequests(gh[t].reqs, FALSE)
    /\ ret.op = "Login" => LoginRequests(ret.gh.reqs, TRUE)

\* Login has returned on a client whose version is exactly 50400.
C7_Witness ==
    /\ Returned_("Login")
    /\ Config.Version = 50400
    /\ ret.gh.reqs[1].sent
    /\ ret.gh.reqs[1].params = {"username", "password"}

\* C8: Login changes the token only on success: returning a string result, it
\* has stored that string and returns it; returning an error (or ending in a
\* panic), it leaves the token as it was; and the token is as it was while
\* Login runs.
C8_LoginTokenOnlyOnSuccess ==
    /\ \A t \in Threads : op[t] = "Login" => Auth = gh[t].authAtEntry
    /\ ret.op = "Login" =>
          IF ~ret.panicked /\ ret.fr.err = NilErr
          THEN /\ ret.gh.outs[1].Result.type = "string"
               /\ ret.gh.authAtExit = ret.gh.outs[1].Result.str
               /\ ret.fr.auth = ret.gh.outs[1].Result.str
          ELSE ret.gh.authAtExit = ret.gh.authAtEntry

\* Login has failed on a client that held a token.
C8_Witness ==
    /\ Returned_("Login")
    /\ ret.fr.err # NilErr
    /\ ret.gh.authAtEntry # EmptyStr
    /\ Auth = ret.gh.authAtEntry

\* C9: Version sends its first APIInfo.version request without Authorization
\* header; it sends a second one, with the token it found on entry, if and only
\* if the first ended with the API error -32602; it builds no third one; and
\* it returns the outcome of its last request.
FirstIsInvalidParams(o) ==
    o.cberr = NilErr /\ o.valid /\ ~o.Error.null /\ o.Error.code = -32602
EntryHeader(h) == IF h.authAtEntry = EmptyStr THEN NoHeader ELSE Bearer(h.authAtEntry)

C9_VersionRetry ==
    ret.op \in {"Version", "NewAPI"} =>
        LET R == ret.gh.reqs
            O == ret.gh.outs
        IN /\ Len(R) \in {1, 2} /\ Len(O) = Len(R)
           /\ \A i \in DOMAIN R : R[i].method = "APIInfo.version"
           /\ R[1].hdr = NoHeader
           /\ Len(R) = 2 <=> FirstIsInvalidParams(O[1])
           /\ (Len(R) = 2 /\ R[2].ready) => R[2].hdr = EntryHeader(ret.gh)
           /\ (~ret.panicked /\ ret.op = "Version") =>
                 /\ ret.fr.err = O[Len(O)].err
                 /\ ret.fr.err = NilErr => ret.fr.v = O[Len(O)].Result.str
                 /\ O[Len(O)].cberr # NilErr => ret.fr.err = O[Len(O)].cberr
                 /\ (O[Len(O)].cberr = NilErr /\ O[Len(O)].valid /\ ~O[Len(O)].Error.null)
                       => ret.fr.err = ApiErr(O[Len(O)].Error.code)

\* Version, on a client holding a token, has retried with the token and
\* returned what the second request brought.
C9_Witness ==
    /\ Returned_("Version")
    /\ ret.gh.authAtEntry # EmptyStr
    /\ Len(ret.gh.reqs) = 2
    /\ ret.gh.reqs[1].sent /\ ret.gh.reqs[2].sent
    /\ ret.gh.reqs[2].hdr = Bearer(ret.gh.authAtEntry)
    /\ ret.fr.err = NilErr

\* C10: for an envelope with an error object, Call returns a nil error and the
\* object in the response, CallWithError and CallWithErrorParse return it as
\* their error, and CallWithErrorParse decodes nothing into the target; for an
\* envelope with a null error none of them returns an API error; a transport
\* or decoding failure comes back as an error that is no API error.
C10_ErrorSurfacing ==
    ret.op \in {"Call", "CallWithError", "CallWithErrorParse"} =>
        LET o == ret.gh.outs[1]
            enveloped == o.cberr = NilErr /\ o.valid
        IN /\ (enveloped /\ ~o.Error.null) =>
                 CASE ret.op = "Call" ->
                        ret.fr.err = NilErr /\ ret.fr.response.Error = o.Error
                   [] ret.op = "CallWithError" -> ret.fr.err = ApiErr(o.Error.code)
                   [] ret.op = "CallWithErrorParse" ->
                        ret.fr.err = ApiErr(o.Error.code) /\ ~ret.fr.target.set
           /\ (enveloped /\ o.Error.null) => ret.fr.err.kind # "api"
           /\ ~enveloped => ret.fr.err.kind \notin {"api", "nil"}
           /\ o.cberr # NilErr => ret.fr.err = o.cberr

\* CallWithErrorParse has returned the error object of an envelope.
C10_Witness ==
    /\ Returned_("CallWithErrorParse")
    /\ ret.gh.outs[1].cberr = NilErr
    /\ ret.gh.outs[1].valid
    /\ ~ret.gh.outs[1].Error.null
    /\ ret.fr.err.kind = "api"

\* C11, as claimed: no public operation panics, whatever the server replies:
\* every operation that ends returns, with a result or an error.
C11_NoPanic ==
    /\ ~crashed
    /\ ret.t # NoThread => ~ret.panicked
    /\ \A t \in Threads : pc[t] # "panic"

----------------------------------------------------------------------------
(* Version strings, read independently of the parser *)

\* The positions of the dots of v, the number of its segments and its k-th one.
DotsOf(v) == {i \in DOMAIN v : v[i] = "."}
SegCount(v) == Cardinality(DotsOf(v)) + 1
DotAt(v, k) ==
    IF k = 0 THEN 0
    ELSE IF k = SegCount(v) THEN Len(v) + 1
    ELSE CHOOSE i \in DotsOf(v) : Cardinality({j \in DotsOf(v) : j <= i}) = k
Segment(v, k) == SubSeq(v, DotAt(v, k - 1) + 1, DotAt(v, k) - 1)

\* A base-10 integer: an optional sign and one or more digits; its digits; the
\* number it writes, by the weights of its positions.
Unsigned(g) == IF g # <<>> /\ g[1] \in {"+", "-"} THEN SubSeq(g, 2, Len(g)) ELSE g
IsDecimal(g) == Unsigned(g) # <<>> /\ \A i \in DOMAIN Unsigned(g) : IsDigit(Unsigned(g)[i])
RECURSIVE Pow10(_)
Pow10(n) == IF n = 0 THEN 1 ELSE 10 * Pow10(n - 1)
RECURSIVE WeightedSum(_, _)
WeightedSum(d, i) ==
    IF i > Len(d) THEN 0 ELSE DigitVal(d[i]) * Pow10(Len(d) - i) + WeightedSum(d, i + 1)
NumberOf(g) == IF g[1] = "-" THEN -WeightedSum(Unsigned(g), 1) ELSE WeightedSum(Unsigned(g), 1)

\* Whether the integer g fits int64.
InInt64(g) ==
    /\ IsDecimal(g)
    /\ ~DigitsGreater(StripZeros(Unsigned(g)),
                      IF g[1] = "-" THEN MinInt64Digits ELSE MaxInt64Digits)

\* major, minor and patch of v: its first three segments, 0 where v has none.
Part(v, k) == IF k <= SegCount(v) THEN NumberOf(Segment(v, k)) ELSE 0
Expected(v) == Part(v, 1) * 10000 + Part(v, 2) * 100 + Part(v, 3)
Consulted(v) == 1..(IF SegCount(v) < 3 THEN SegCount(v) ELSE 3)

\* NewAPI has returned (or failed) after Version gave it a version string,
\* which is ret.fr.v.
GotVersionString ==
    /\ ret.t # NoThread /\ ret.op = "NewAPI" /\ ~ret.panicked
    /\ Last(ret.gh.outs).err = NilErr

\* C12, as claimed: for every version string made of base-10 integer segments
\* parseVersionString succeeds with major*10000 + minor*100 + patch.
C12_EveryIntegerString ==
    (GotVersionString /\ \A k \in 1..SegCount(ret.fr.v) : IsDecimal(Segment(ret.fr.v, k))) =>
        /\ ret.fr.err = NilErr
        /\ Config.Version = Expected(ret.fr.v)

\* C12, amended: for every version string made of base-10 integer segments of
\* which the first three fit int64, parseVersionString succeeds with
\* major*10000 + minor*100 + patch: a missing minor or patch counts as 0 and
\* the segments after the third have no influence.
C12_ParseWeights ==
    (/\ GotVersionString
     /\ \A k \in 1..SegCount(ret.fr.v) : IsDecimal(Segment(ret.fr.v, k))
     /\ \A k \in Consulted(ret.fr.v) : InInt64(Segment(ret.fr.v, k))) =>
        /\ ret.fr.err = NilErr
        /\ Config.Version = Expected(ret.fr.v)

\* NewAPI has stored 30405 for "3.4.5." followed by a fourth segment that is
\* beyond int64.
C12_Witness ==
    /\ GotVersionString
    /\ ret.fr.v = <<"3", ".", "4", ".", "5", ".">> \o Huge
    /\ ret.fr.err = NilErr
    /\ Config.Version = 30405

\* C13, as claimed: if any segment of the version string, in whichever
\* position, is not a base-10 integer, NewAPI fails with the parse error and
\* stores no version.
C13_AnyBadSegmentFails ==
    (GotVersionString /\ \E k \in 1..SegCount(ret.fr.v) : ~IsDecimal(Segment(ret.fr.v, k))) =>
        /\ ret.fr.err = PlainErr("parse")
        /\ Config.Version = 0

\* C13, amended: if any of the first three segments of the version string is
\* not a base-10 integer, NewAPI fails with the parse error and stores no
\* version.
C13_BadConsultedSegmentFails ==
    (GotVersionString /\ \E k \in Consulted(ret.fr.v) : ~IsDecimal(Segment(ret.fr.v, k))) =>
        /\ ret.fr.err = PlainErr("parse")
        /\ Config.Version = 0

\* NewAPI has failed on "5.4.x", whose third segment is no integer.
C13_Witness ==
    /\ GotVersionString
    /\ ret.fr.v = <<"5", ".", "4", ".", "x">>
    /\ ret.fr.err = PlainErr("parse")
    /\ Config.Version = 0

\* C14: Config is written during construction only: once NewAPI has returned
\* no step of any operation (Call, CallWithError, CallWithErrorParse, Login,
\* Version, SetClient) changes Config.Version, Config.Serialize or Config.Url,
\* and construction itself leaves the URL and the Serialize flag as given.
C14_ConfigWrittenOnce ==
    [][/\ built => Config' = Config
       /\ Config'.Url = Config.Url
       /\ Config'.Serialize = Config.Serialize]_vars

\* After SetClient has replaced the http.Client, Version has returned a
\* version string that parses to another number than the stored one.
C14_Witness ==
    /\ Returned_("Version")
    /\ c # DefaultClient
    /\ ret.fr.err = NilErr
    /\ parseVersionString(ret.fr.v).ok
    /\ Config.Version # 0
    /\ parseVersionString(ret.fr.v).version # Config.Version

\* C15, as claimed: with Serialize, a call takes its id, serializes its
\* envelope and reads the token for the header only while it holds the mutex,
\* so no two calls are at once between "id assigned" and "response read".
C15_GateCoversCompose ==
    Config.Serialize =>
        /\ \A t \in Threads : pc[t] \in {"cb_authchk", "cb_authfmt"} => ex = t
        /\ Cardinality({t \in Threads : InCallBytes(t)}) <= 1

----------------------------------------------------------------------------
(* Progress *)

\* The steps of a goroutine inside an operation other than taking the mutex.
Run(t) ==
    \/ VersionClear(t)
    \/ CallBytesBegin(t, MaxId)
    \/ CallBytesAuthCheck(t)
    \/ CallBytesAuthHeader(t)
    \/ CallBytesDo(t)
    \/ CallBytesReceive(t)
    \/ LoginStore(t)
    \/ VersionRestore(t)

\* A goroutine that can run does run and every exchange with the server ends
\* (weak fairness of its steps); a goroutine waiting in Lock gets the mutex if
\* the mutex is free again and again (sync.Mutex hands it to a starving waiter).
Fairness ==
    \A t \in Threads : WF_vars(Run(t)) /\ SF_vars(CallBytesLock(t))

SpecLive == Spec /\ Fairness

\* C16, as claimed: every call that has begun returns in the end (with
\* Serialize, it gets the mutex, and the mutex is free again once its exchange
\* has ended, on every exit path); the mutex is held only by a call between
\* Lock and its return, and never without Serialize.
C16_EveryCallReturns ==
    /\ \A t \in Threads : InCallBytes(t) ~> ~InCallBytes(t)
    /\ [](\A t \in Threads : ex = t => Config.Serialize /\ pc[t] \in {"cb_do", "cb_recv"})

\* C17: when Version does not run concurrently with another operation, the
\* token after it has ended is the token it found, however its calls ended
\* (success, transport, read or decoding error, API error with or without the
\* retry, a result that is no string).
C17_VersionKeepsToken ==
    (ret.t # NoThread /\ ret.op = "Version") =>
        /\ ret.gh.authAtExit = ret.gh.authAtEntry
        /\ Auth = ret.gh.authAtEntry

\* Version has failed with a transport error on a client holding a token, and
\* the token is back.
C17_Witness ==
    /\ Returned_("Version")
    /\ ret.gh.authAtEntry # EmptyStr
    /\ Len(ret.gh.outs) = 1
    /\ ret.gh.outs[1].cberr = PlainErr("transport")
    /\ ret.gh.reqs[1].token = EmptyStr
    /\ Auth = ret.gh.authAtEntry

\* The requests of an operation that went to the transport.
SentOf(h) == {i \in DOMAIN h.reqs : h.reqs[i].sent}

\* An operation `name` with the history h has not retried: one request for a
\* call or a Login, none sent if json.Marshal failed; at most two for Version
\* and NewAPI, both APIInfo.version, the second only after the API error -32602
\* to the first; each request under an id of its own, each sent at most once.
NoRetry(name, h, done) ==
    /\ name \in {"Call", "CallWithError", "CallWithErrorParse", "Login"} =>
          /\ Len(h.reqs) = 1
          /\ h.reqs[1].env.keys = {} => SentOf(h) = {}
          /\ (h.outs # <<>> /\ h.outs[1].cberr = PlainErr("marshal")) => SentOf(h) = {}
    /\ name \in {"Version", "NewAPI"} =>
          /\ Len(h.reqs) <= 2
          /\ \A i \in DOMAIN h.reqs : h.reqs[i].method = "APIInfo.version"
          /\ Len(h.reqs) = 2 => FirstIsInvalidParams(h.outs[1])
    /\ \A i, j \in DOMAIN h.reqs : i # j => h.reqs[i].id # h.reqs[j].id
    /\ Len(h.outs) <= Len(h.reqs)
    /\ done => Len(h.outs) = Len(h.reqs)

\* C18: no operation retries, but for Version's second APIInfo.version after
\* the API error -32602: Call, CallWithError, CallWithErrorParse and Login hand
\* at most one request to the transport (none when json.Marshal fails), Version
\* and NewAPI at most two; and the transport has been handed exactly the
\* requests the operations record as sent.
C18_NoRetry ==
    /\ \A t \in Threads : op[t] # "none" => NoRetry(op[t], gh[t], FALSE)
    /\ (ret.t # NoThread /\ ret.op # "SetClient") => NoRetry(ret.op, ret.gh, TRUE)
    /\ \A t \in Threads :
          (pc[t] = "cb_recv") <=> (\E i \in SentOf(gh[t]) : gh[t].reqs[i].id \in
                                        {inflight[k] : k \in DOMAIN inflight})
    /\ Len(inflight) = Cardinality({t \in Threads : pc[t] = "cb_recv"})

\* NewAPI has returned after two APIInfo.version requests, both sent.
C18_Witness ==
    /\ Returned_("NewAPI")
    /\ SentOf(ret.gh) = {1, 2}
    /\ FirstIsInvalidParams(ret.gh.outs[1])
    /\ ret.gh.reqs[1].id = 1 /\ ret.gh.reqs[2].id = 2

\* The operations that are plain calls.
CallOps == {"Call", "CallWithError", "CallWithErrorParse"}

\* C19, as claimed: once Login has succeeded with a token and no further
\* Login runs, every request a Call, CallWithError or CallWithErrorParse builds
\* carries "Authorization: Bearer <token>", also while Version runs on another
\* goroutine (which holds the token meanwhile).
C19_TokenDespiteVersion ==
    \A t \in Threads :
        (/\ op[t] \in CallOps
         /\ gh[t].authAtEntry # EmptyStr
         /\ gh[t].reqs[1].ready
         /\ \A u \in Threads : op[u] # "Login"
         /\ \/ Auth = gh[t].authAtEntry
            \/ \E u \in Threads : op[u] = "Version" /\ fr[u].auth = gh[t].authAtEntry) =>
            gh[t].reqs[1].hdr = <<"Bearer ">> \o gh[t].authAtEntry

\* The requests of the history h all carry the token h began with, but for the
\* first request of a Version, which carries no Authorization header.
CarriesToken(name, h) ==
    \A i \in DOMAIN h.reqs :
        h.reqs[i].ready =>
            IF name \in {"Version", "NewAPI"} /\ i = 1
            THEN h.reqs[i].hdr = NoHeader
            ELSE h.reqs[i].hdr = <<"Bearer ">> \o h.authAtEntry

\* C19, amended: once Login has succeeded with a token, every request built by
\* an operation that no Login and no Version of another goroutine overlaps
\* carries "Authorization: Bearer <token>", with Serialize on or off; the only
\* request without it is the first request of a Version.
C19_TokenWhenVersionAlone ==
    /\ \A t \in Threads :
          (op[t] # "none" /\ gh[t].authAtEntry # EmptyStr /\ ~gh[t].overlapped) =>
              /\ CarriesToken(op[t], gh[t])
              /\ op[t] \in CallOps => Auth = gh[t].authAtEntry
    /\ (ret.t # NoThread /\ ret.gh.authAtEntry # EmptyStr /\ ~ret.gh.overlapped) =>
          CarriesToken(ret.op, ret.gh)

\* After a Login, a CallWithErrorParse of the other goroutine that no Login
\* and no Version overlapped has sent its request with the token of that Login.
C19_Witness ==
    /\ Returned_("CallWithErrorParse")
    /\ ret.t # Main
    /\ ~ret.gh.overlapped
    /\ ret.gh.authAtEntry # EmptyStr
    /\ ret.gh.reqs[1].sent
    /\ ret.gh.reqs[1].hdr = <<"Bearer ">> \o ret.gh.authAtEntry
    /\ Auth = ret.gh.authAtEntry

\* (major, minor, patch) of a version string, and the order of such triples.
Triple(v) == <<Part(v, 1), Part(v, 2), Part(v, 3)>>
LexLess(a, b) ==
    \/ a[1] < b[1]
    \/ a[1] = b[1] /\ a[2] < b[2]
    \/ a[1] = b[1] /\ a[2] = b[2] /\ a[3] < b[3]

\* Version strings of non-negative integer segments that parseVersionString
\* accepts; those among them whose minor and patch are below 100.
NonNegative(v) ==
    /\ \A k \in 1..SegCount(v) : IsDecimal(Segment(v, k)) /\ Segment(v, k)[1] # "-"
    /\ \A k \in Consulted(v) : InInt64(Segment(v, k))
TwoDigits(v) == Part(v, 2) < 100 /\ Part(v, 3) < 100

\* The versions a stored version is compared with: what parseVersionString
\* makes of each, and its (major, minor, patch).
RefVersions == {v \in UNION {VersionsOf(n) : n \in 1..3} : NonNegative(v)}
RefParsed == [b \in RefVersions |-> parseVersionString(b).version]
RefTriple == [b \in RefVersions |-> Triple(b)]

\* The gate of Login is taken on the stored version.
GateTaken == LoginParams(Config.Version).keys = {"username", "password"}

\* C20, as claimed: for all version strings a, b of non-negative integer
\* segments, parse(a) < parse(b) exactly when (major, minor, patch) of a is
\* lexicographically smaller than that of b, and Login takes the branch of
\* 5.4.0 exactly when the server's version is 5.4.0 or newer.
C20_OrderPreserving ==
    (GotVersionString /\ NonNegative(ret.fr.v)) =>
        LET a == Triple(ret.fr.v)
        IN /\ ret.fr.err = NilErr
           /\ \A b \in RefVersions :
                 (Config.Version < RefParsed[b]) <=> LexLess(a, RefTriple[b])
           /\ GateTaken <=> ~LexLess(a, <<5, 4, 0>>)

\* C20, amended: the same for version strings whose minor and patch are both
\* below 100.
C20_OrderPreservingTwoDigits ==
    (GotVersionString /\ NonNegative(ret.fr.v) /\ TwoDigits(ret.fr.v)) =>
        LET a == Triple(ret.fr.v)
        IN /\ ret.fr.err = NilErr
           /\ \A b \in RefVersions :
                 (RefTriple[b][2] < 100 /\ RefTriple[b][3] < 100) =>
                     ((Config.Version < RefParsed[b]) <=> LexLess(a, RefTriple[b]))
           /\ GateTaken <=> ~LexLess(a, <<5, 4, 0>>)

\* NewAPI has stored 50400 for "5.4", and Login will take the branch of 5.4.0.
C20_Witness ==
    /\ GotVersionString
    /\ ret.fr.v = <<"5", ".", "4">>
    /\ Config.Version = 50400
    /\ GateTaken
    /\ LexLess(<<5, 3, 5>>, Triple(ret.fr.v))

====
